---------------------------- MODULE Spec2Model ----------------------------
(***************************************************************************)
(* Model of the Mira live-chat client (mira-core): the ChatCodec frame     *)
(* codec, Message::parse, and the connect orchestrator with its inbound    *)
(* loop (handle_stream over FramedRead) and outbound loop (handle_sink).   *)
(* Bytes are integers 0..255; buffers are sequences of bytes.              *)
(***************************************************************************)
EXTENDS Integers, Sequences, FiniteSets, TLC

(***************************************************************************)
(* Bounds of the model.                                                    *)
(***************************************************************************)
\* frames per inbound stream of the session
MaxFrames == 2
\* frames per input of the codec harness
MaxCodecFrames == 2
\* sub-frames per compressed batch
MaxSub == 2
\* heartbeat frames kept in the outbound log (the loop itself is unbounded)
MaxHeartbeats == 1
\* frames per inbound stream under the fair specification
MaxFairFrames == 1
\* packets the codec harness collects before it stops calling decode
MaxGot == 6
\* the codec harness counts its appends up to this many
FeedsCap == 2
\* the largest guard-level ordinal a document holds
MaxOrdinal == 5
\* fields of one document that are absent or of a type that is not the one read
MaxRefused == 3
\* the frames of an input of the legacy decoder's harness
MaxLegacyFrames == 2

(***************************************************************************)
(* Program constants (mira-core/src/lib.rs, mod chat).                     *)
(***************************************************************************)
HEADER_LENGTH == 16
OP_HEARTBEAT == 2
OP_HEARTBEAT_REPLY == 3
OP_MESSAGE == 5
OP_USER_AUTHENTICATION == 7
OP_CONNECT_SUCCESS == 8
SEQUENCE_ID_DEFAULT == 1

(***************************************************************************)
(* Byte helpers: the bytes crate's Buf accessors (big-endian).             *)
(***************************************************************************)
\* Buf::get_u32 at 1-based position i of s
U32(s, i) == s[i] * 16777216 + s[i + 1] * 65536 + s[i + 2] * 256 + s[i + 3]

\* Buf::get_u16 at 1-based position i of s
U16(s, i) == s[i] * 256 + s[i + 1]

\* BufMut::put_u32
PutU32(n) == << (n \div 16777216) % 256, (n \div 65536) % 256, (n \div 256) % 256, n % 256 >>

\* BufMut::put_u16
PutU16(n) == << (n \div 256) % 256, n % 256 >>

\* Buf::advance(n): the bytes after the first n
Drop(s, n) == SubSeq(s, n + 1, Len(s))

\* the first n bytes
Take(s, n) == SubSeq(s, 1, n)

RECURSIVE Flatten(_)
Flatten(ss) == IF ss = << >> THEN << >> ELSE Head(ss) \o Flatten(Tail(ss))

(***************************************************************************)
(* Option values: << >> is None, <<x>> is Some(x).                         *)
(***************************************************************************)
None == << >>
Some(x) == << x >>

(***************************************************************************)
(* JSON values (the json crate's JsonValue), as far as Message::parse      *)
(* looks: the leaf found at each path parse reads.                         *)
(***************************************************************************)
JNull == [k |-> "null", n |-> 0, s |-> ""]
JStr(s) == [k |-> "str", n |-> 0, s |-> s]
JNum(n) == [k |-> "num", n |-> n, s |-> ""]
JBool(b) == [k |-> "bool", n |-> IF b THEN 1 ELSE 0, s |-> ""]

Paths ==
    { "cmd", "roomid", "real_roomid", "msg_common", "msg_self",
      "data.title", "data.area_name", "data.parent_area_name",
      "info.0.1", "info.0.2", "info.0.3", "info.0.5", "info.0.9",
      "info.1", "info.2.0", "info.2.1",
      "data.action", "data.giftName", "data.gift_name", "data.num",
      "data.combo_num", "data.uid", "data.uname", "data.username",
      "data.vip", "data.svip", "data.is_admin", "data.guard_level",
      "data.rank_desc", "data.color", "data.timestamp",
      "data.id", "data.target_id", "data.face", "data.copy_writing",
      "data.copy_color", "data.fans", "data.price", "data.message",
      "data.message_jpn", "data.user_info.uname" }

\* a JSON document holding the leaves of g and null everywhere else
Doc(g) == [p \in Paths |-> IF p \in DOMAIN g THEN g[p] ELSE JNull]

NullDoc == [p \in Paths |-> JNull]

\* JsonValue::as_str
AsStr(a) == IF a.k = "str" THEN Some(a) ELSE None

\* JsonValue::take_string
TakeString(a) == IF a.k = "str" THEN Some(a) ELSE None

\* JsonValue::as_u32
AsU32(a) == IF a.k = "num" /\ a.n >= 0 THEN Some(a) ELSE None

\* JsonValue::as_i32
AsI32(a) == IF a.k = "num" THEN Some(a) ELSE None

\* JsonValue::as_bool
AsBool(a) == IF a.k = "bool" THEN Some(a) ELSE None

(***************************************************************************)
(* mod msg: Message and GuardLevel.                                        *)
(***************************************************************************)
Msg(variant, fields, text, json) ==
    [variant |-> variant, fields |-> fields, text |-> text, json |-> json]

NoMsg == Msg("", << >>, << >>, NullDoc)

\* Message::ParsingError(str.to_owned())
ParsingError(text) == Msg("ParsingError", << >>, text, NullDoc)

\* Raw as it would be had the command tag been taken out of the document
RawCmdTaken(json) == Msg("Raw", << >>, << >>, [json EXCEPT !["cmd"] = JNull])

\* Message::Raw(json)
Raw(json) == Msg("Raw", << >>, << >>, json)

\* GuardLevelFrom as it would be were an ordinal above 3 taken for Captain
GuardLevelFromClamped(n) ==
    CASE n = 0 -> Some(JStr("None"))
      [] n = 1 -> Some(JStr("Governor"))
      [] n = 2 -> Some(JStr("Praefect"))
      [] OTHER -> Some(JStr("Captain"))

\* GuardLevel::from
GuardLevelFrom(n) ==
    CASE n = 0 -> Some(JStr("None"))
      [] n = 1 -> Some(JStr("Governor"))
      [] n = 2 -> Some(JStr("Praefect"))
      [] n = 3 -> Some(JStr("Captain"))
      [] OTHER -> None

\* a variant built from field extractions, each of them followed by `?`
Variant(name, opts) ==
    IF \A i \in 1..Len(opts) : opts[i] # None
    THEN [kind |-> "some",
          msg |-> Msg(name, [i \in 1..Len(opts) |-> opts[i][1]], << >>, NullDoc)]
    ELSE [kind |-> "none", msg |-> NoMsg]

\* Message::parse: kind is "some" (a Message), "none" (None) or "panic"
MessageParse(json) ==
    IF AsStr(json["cmd"]) = None THEN [kind |-> "none", msg |-> NoMsg]
    ELSE LET cmd == json["cmd"].s IN
    CASE cmd = "PREPARING" -> Variant("Preparing", << >>)
      [] cmd = "LIVE" -> Variant("Live", << >>)
      [] cmd = "ROOM_CHANGE" ->
            Variant("RoomChange",
                    << TakeString(json["data.title"]),
                       TakeString(json["data.area_name"]),
                       TakeString(json["data.parent_area_name"]) >>)
      [] cmd = "DANMU_MSG" ->
            Variant("Danmaku",
                    << AsU32(json["info.0.1"]), AsU32(json["info.0.2"]),
                       AsU32(json["info.0.3"]), AsI32(json["info.0.5"]),
                       TakeString(json["info.1"]), AsU32(json["info.0.9"]),
                       AsU32(json["info.2.0"]), TakeString(json["info.2.1"]) >>)
      [] cmd = "SEND_GIFT" ->
            Variant("SendGift",
                    << TakeString(json["data.action"]),
                       TakeString(json["data.giftName"]),
                       AsU32(json["data.num"]), AsU32(json["data.uid"]),
                       TakeString(json["data.uname"]) >>)
      [] cmd = "COMBO_END" ->
            Variant("ComboEnd",
                    << TakeString(json["data.action"]),
                       TakeString(json["data.gift_name"]),
                       AsU32(json["data.combo_num"]), AsU32(json["data.uid"]),
                       TakeString(json["data.uname"]) >>)
      [] cmd = "WELCOME" ->
            IF ~(json["data.vip"].k = "num" /\ json["data.vip"].n = 1)
            THEN [kind |-> "panic", msg |-> NoMsg]
            ELSE Variant("Welcome",
                         << AsBool(json["data.is_admin"]),
                            Some(JBool(~(json["data.svip"].k = "num"
                                          /\ json["data.svip"].n = 0))),
                            AsU32(json["data.uid"]),
                            TakeString(json["data.uname"]) >>)
      [] cmd = "WELCOME_GUARD" ->
            IF AsU32(json["data.guard_level"]) = None
            THEN [kind |-> "none", msg |-> NoMsg]
            ELSE Variant("WelcomeGuard",
                         << GuardLevelFrom(json["data.guard_level"].n),
                            AsU32(json["data.uid"]),
                            TakeString(json["data.username"]) >>)
      [] cmd = "ROOM_RANK" ->
            Variant("RoomRank",
                    << TakeString(json["data.rank_desc"]),
                       TakeString(json["data.color"]),
                       AsU32(json["data.timestamp"]) >>)
      [] cmd = "ENTRY_EFFECT" ->
            Variant("EntryEffect",
                    << AsU32(json["data.id"]), AsU32(json["data.uid"]),
                       AsU32(json["data.target_id"]),
                       TakeString(json["data.face"]),
                       TakeString(json["data.copy_writing"]),
                       TakeString(json["data.copy_color"]) >>)
      [] cmd = "NOTICE_MSG" ->
            Variant("NoticeMessage",
                    << AsU32(json["roomid"]), AsU32(json["real_roomid"]),
                       TakeString(json["msg_common"]),
                       TakeString(json["msg_self"]) >>)
      [] cmd = "ROOM_REAL_TIME_MESSAGE_UPDATE" ->
            Variant("RoomRealTimeMessageUpdate", << AsU32(json["data.fans"]) >>)
      [] cmd = "SUPER_CHAT_MESSAGE" ->
            Variant("SuperChatMessage",
                    << TakeString(json["data.id"]), AsU32(json["data.uid"]),
                       AsU32(json["data.price"]),
                       TakeString(json["data.message"]),
                       TakeString(json["data.user_info.uname"]) >>)
      [] cmd = "SUPER_CHAT_MESSAGE_JPN" ->
            Variant("SuperChatMessageJapanese",
                    << TakeString(json["data.id"]), TakeString(json["data.uid"]),
                       AsU32(json["data.price"]),
                       TakeString(json["data.message"]),
                       TakeString(json["data.message_jpn"]),
                       TakeString(json["data.user_info.uname"]) >>)
      [] cmd = "HOT_ROOM_NOTIFY" -> Variant("HotRoomNotify", << >>)
      [] OTHER -> [kind |-> "some", msg |-> Raw(json)]

(***************************************************************************)
(* json::parse on the texts the inputs are built from.  Each text is the   *)
(* ASCII of the JSON document beside it; any other text is not a document  *)
(* and json::parse returns Err.                                            *)
(***************************************************************************)
\* {"cmd":"LIVE"}
TxtLive == << 123, 34, 99, 109, 100, 34, 58, 34, 76, 73, 86, 69, 34, 125 >>
\* {"cmd":"X"}
TxtUnknown == << 123, 34, 99, 109, 100, 34, 58, 34, 88, 34, 125 >>
\* {}
TxtEmpty == << 123, 125 >>
\* {        (not a JSON document)
TxtBroken == << 123 >>

JsonTexts ==
    << [text |-> TxtLive, json |-> Doc("cmd" :> JStr("LIVE"))],
       [text |-> TxtUnknown, json |-> Doc("cmd" :> JStr("X"))],
       [text |-> TxtEmpty, json |-> NullDoc] >>

\* json::parse(str): Some(document) or None for Err
JsonParse(str) ==
    IF \E i \in 1..Len(JsonTexts) : JsonTexts[i].text = str
    THEN Some(JsonTexts[CHOOSE i \in 1..Len(JsonTexts) : JsonTexts[i].text = str].json)
    ELSE None


(***************************************************************************)
(* miniz_oxide::inflate::decompress_to_vec_zlib on zlib streams made of    *)
(* stored deflate blocks: header check, LEN/NLEN check, Adler-32 check.    *)
(* Huffman-coded blocks are outside the inputs of this model.              *)
(***************************************************************************)
\* the sum of w[i] * data[i] over lo..hi, w[i] being 1 (plain) or the number
\* of bytes from i to the end (weighted)
RECURSIVE ByteSum(_, _, _, _)
ByteSum(data, lo, hi, weighted) ==
    IF lo > hi THEN 0
    ELSE IF lo = hi THEN (IF weighted THEN Len(data) - lo + 1 ELSE 1) * data[lo]
    ELSE ByteSum(data, lo, (lo + hi) \div 2, weighted)
            + ByteSum(data, (lo + hi) \div 2 + 1, hi, weighted)

\* the four big-endian bytes of the Adler-32 checksum of data: a is 1 plus the
\* sum of the bytes, b the sum of the values a takes, both modulo 65521
Adler32(data) ==
    LET a == (1 + ByteSum(data, 1, Len(data), FALSE)) % 65521
        b == (Len(data) + ByteSum(data, 1, Len(data), TRUE)) % 65521
    IN  << b \div 256, b % 256, a \div 256, a % 256 >>

\* the stored blocks from position p of z: [ok, out, next]
RECURSIVE InflateStored(_, _, _)
InflateStored(z, p, acc) ==
    IF p > Len(z) THEN [ok |-> FALSE, out |-> << >>, next |-> p]
    ELSE IF (z[p] \div 2) % 4 # 0 \/ p + 4 > Len(z)
    THEN [ok |-> FALSE, out |-> << >>, next |-> p]
    ELSE LET len == z[p + 1] + 256 * z[p + 2]
             nlen == z[p + 3] + 256 * z[p + 4]
         IN  IF len + nlen # 65535 \/ p + 4 + len > Len(z)
             THEN [ok |-> FALSE, out |-> << >>, next |-> p]
             ELSE IF z[p] % 2 = 1
             THEN [ok |-> TRUE, out |-> acc \o SubSeq(z, p + 5, p + 4 + len),
                   next |-> p + 5 + len]
             ELSE InflateStored(z, p + 5 + len, acc \o SubSeq(z, p + 5, p + 4 + len))

\* decompress(&src[..]): [ok, out]
Decompress(z) ==
    IF Len(z) < 2 THEN [ok |-> FALSE, out |-> << >>]
    ELSE IF z[1] % 16 # 8 \/ z[1] \div 16 > 7 \/ (z[1] * 256 + z[2]) % 31 # 0
            \/ (z[2] \div 32) % 2 = 1
    THEN [ok |-> FALSE, out |-> << >>]
    ELSE LET r == InflateStored(z, 3, << >>)
         IN  IF ~r.ok \/ r.next + 3 > Len(z)
                \/ SubSeq(z, r.next, r.next + 3) # Adler32(r.out)
             THEN [ok |-> FALSE, out |-> << >>]
             ELSE [ok |-> TRUE, out |-> r.out]

(***************************************************************************)
(* mod chat: ChatPacket, RawChatPacket and the ChatCodec.                  *)
(***************************************************************************)
ConnectSuccess == [t |-> "ConnectSuccess", n |-> 0, msg |-> NoMsg]
Popularity(n) == [t |-> "Popularity", n |-> n, msg |-> NoMsg]
Message(m) == [t |-> "Message", n |-> 0, msg |-> m]

\* what one decode call does: Ok(None), Ok(Some(pk)), Err(err) or a panic;
\* rest is the buffer it leaves
Outcome(kind, pk, rest, err) == [kind |-> kind, pk |-> pk, rest |-> rest, err |-> err]

ErrDecompress == "failed to decompress"
ErrVersion == "unsupported protocol version"

\* SubLen as it would be with a sub-frame taken to be the 16 header bytes
\* and a payload of fixed size
SubLenFixed(data) == HEADER_LENGTH - 4 + 2

\* `data.get_u32() as usize - 4`: what is left of a sub-frame after its length
SubLen(data) == U32(data, 1) - 4

\* the `while data.has_remaining()` loop of decode: the sub-frames of data;
\* kind is "ok" (with the packets) or "panic"
RECURSIVE SubFrames(_, _)
SubFrames(data, res) ==
    IF Len(data) = 0 THEN [kind |-> "ok", pk |-> res]
    ELSE IF Len(data) < 4 \/ U32(data, 1) < 4
    THEN [kind |-> "panic", pk |-> << >>]
    ELSE LET len == SubLen(data)
             d == Drop(data, 4)
         IN  IF HEADER_LENGTH - 4 > len \/ len > Len(d)
             THEN [kind |-> "panic", pk |-> << >>]
             ELSE LET str == SubSeq(d, HEADER_LENGTH - 4 + 1, len)
                      json == JsonParse(str)
                  IN  IF json = None THEN [kind |-> "panic", pk |-> << >>]
                      ELSE LET m == MessageParse(json[1])
                           IN  IF m.kind = "panic"
                               THEN [kind |-> "panic", pk |-> << >>]
                               ELSE SubFrames(Drop(d, len),
                                        Append(res,
                                            Message(IF m.kind = "some" THEN m.msg
                                                    ELSE ParsingError(str))))

\* Finish as it would be advancing by the payload length only
FinishPayloadOnly(src, len, res) ==
    Outcome(IF res = << >> THEN "none" ELSE "some", res,
            Drop(src, IF len >= HEADER_LENGTH THEN len - HEADER_LENGTH ELSE 0), "")

\* Finish as it would be were a frame without packets left in the buffer
FinishKeepsDropped(src, len, res) ==
    IF res = << >> THEN Outcome("none", res, src, "")
    ELSE Outcome("some", res, Drop(src, len), "")

\* the end of decode: src.advance(len), then None for an empty res
Finish(src, len, res) ==
    Outcome(IF res = << >> THEN "none" ELSE "some", res, Drop(src, len), "")

\* DecodeMessage as it would be were every version other than 2 read as an
\* uncompressed frame
DecodeMessageAnyVersionRaw(src, len, proto_ver) ==
    IF proto_ver # 2
    THEN LET r == SubFrames(Take(src, len), << >>)
         IN  IF r.kind = "panic" THEN Outcome("panic", << >>, src, "")
             ELSE Finish(src, len, r.pk)
    ELSE IF HEADER_LENGTH > len THEN Outcome("panic", << >>, src, "")
         ELSE LET z == Decompress(SubSeq(src, HEADER_LENGTH + 1, len))
              IN  IF ~z.ok THEN Outcome("err", << >>, src, ErrDecompress)
                  ELSE LET r == SubFrames(z.out, << >>)
                       IN  IF r.kind = "panic" THEN Outcome("panic", << >>, src, "")
                           ELSE Finish(src, len, r.pk)

\* DecodeMessage as it would be were the payload of a version-0 frame read
\* as a run of sub-frames, as the inflated payload of a version-2 frame is
DecodeMessagePayloadSubFrames(src, len, proto_ver) ==
    IF proto_ver = 0
    THEN IF HEADER_LENGTH > len THEN Outcome("panic", << >>, src, "")
         ELSE LET r == SubFrames(SubSeq(src, HEADER_LENGTH + 1, len), << >>)
              IN  IF r.kind = "panic" THEN Outcome("panic", << >>, src, "")
                  ELSE Finish(src, len, r.pk)
    ELSE DecodeMessageAnyVersionRaw(src, len, proto_ver)

\* the OP_MESSAGE arm of decode
DecodeMessage(src, len, proto_ver) ==
    IF proto_ver = 0
    THEN LET r == SubFrames(Take(src, len), << >>)
         IN  IF r.kind = "panic" THEN Outcome("panic", << >>, src, "")
             ELSE Finish(src, len, r.pk)
    ELSE IF proto_ver = 2
    THEN IF HEADER_LENGTH > len THEN Outcome("panic", << >>, src, "")
         ELSE LET z == Decompress(SubSeq(src, HEADER_LENGTH + 1, len))
              IN  IF ~z.ok THEN Outcome("err", << >>, src, ErrDecompress)
                  ELSE LET r == SubFrames(z.out, << >>)
                       IN  IF r.kind = "panic" THEN Outcome("panic", << >>, src, "")
                           ELSE Finish(src, len, r.pk)
    ELSE Outcome("err", << >>, src, ErrVersion)

\* decode, lines 159-169: the buffer does not hold a whole frame yet
Incomplete(src) == Len(src) < 4 \/ Len(src) < U32(src, 1)

\* NeedMore as it would be had the length been read with src.get_u32(),
\* which consumes the four bytes it reads
NeedMoreConsuming(src) == Outcome("none", << >>, Drop(src, 4), "")

\* NeedMore as it would be had an incomplete frame been taken for an error
NeedMoreFailing(src) == Outcome("err", << >>, src, "incomplete frame")

\* decode's `return Ok(None)` for an incomplete frame: nothing is consumed
NeedMore(src) == Outcome("none", << >>, src, "")

\* DecodeFrame as it would be were the popularity value read from the last
\* four bytes of the frame
DecodeFramePopularityTail(src, len) ==
    IF Len(src) < HEADER_LENGTH THEN Outcome("panic", << >>, src, "")
    ELSE LET proto_ver == U16(src, 7)
             operation == U32(src, 9)
         IN  CASE operation = OP_CONNECT_SUCCESS -> Finish(src, len, << ConnectSuccess >>)
               [] operation = OP_HEARTBEAT_REPLY ->
                     IF Len(src) < HEADER_LENGTH + 4 \/ len < 4
                     THEN Outcome("panic", << >>, src, "")
                     ELSE Finish(src, len, << Popularity(U32(src, len - 3)) >>)
               [] operation = OP_MESSAGE -> DecodeMessage(src, len, proto_ver)
               [] OTHER -> Finish(src, len, << >>)

\* decode from the header fields on, for a buffer that holds len bytes
DecodeFrame(src, len) ==
    IF Len(src) < HEADER_LENGTH THEN Outcome("panic", << >>, src, "")
    ELSE LET proto_ver == U16(src, 7)
             operation == U32(src, 9)
         IN  CASE operation = OP_CONNECT_SUCCESS -> Finish(src, len, << ConnectSuccess >>)
               [] operation = OP_HEARTBEAT_REPLY ->
                     IF Len(src) < HEADER_LENGTH + 4 THEN Outcome("panic", << >>, src, "")
                     ELSE Finish(src, len, << Popularity(U32(src, HEADER_LENGTH + 1)) >>)
               [] operation = OP_MESSAGE -> DecodeMessage(src, len, proto_ver)
               [] OTHER -> Finish(src, len, << >>)

\* <ChatCodec as Decoder>::decode
Decode(src) == IF Incomplete(src) THEN NeedMore(src) ELSE DecodeFrame(src, U32(src, 1))

\* the legacy decoder, <ChatCodec as Decoder>::decode of src/src/lib.rs: one
\* packet per call; the cursor is src itself, so every read consumes.  A
\* declared length below 16 underflows `len - HEADER_LENGTH`, a panic in a
\* build with overflow checks
LegacyDecode(src) ==
    IF Incomplete(src) THEN NeedMore(src)
    ELSE LET total == U32(src, 1) IN
    IF Len(src) < HEADER_LENGTH \/ total < HEADER_LENGTH
    THEN Outcome("panic", << >>, src, "")
    ELSE LET operation == U32(src, 9)
             len == total - HEADER_LENGTH
             body == Drop(src, HEADER_LENGTH)
         IN  CASE operation = OP_CONNECT_SUCCESS ->
                     Outcome("some", << ConnectSuccess >>, Drop(body, len), "")
               [] operation = OP_HEARTBEAT_REPLY ->
                     IF Len(body) < 4 THEN Outcome("panic", << >>, src, "")
                     ELSE Outcome("some", << Popularity(U32(body, 1)) >>, Drop(body, 4), "")
               [] operation = OP_MESSAGE ->
                     LET str == Take(body, len)
                         json == JsonParse(str)
                     IN  IF json = None THEN Outcome("panic", << >>, src, "")
                         ELSE LET m == MessageParse(json[1])
                              IN  IF m.kind = "panic" THEN Outcome("panic", << >>, src, "")
                                  ELSE Outcome("some",
                                               << Message(IF m.kind = "some" THEN m.msg
                                                          ELSE ParsingError(str)) >>,
                                               Drop(body, len), "")
               [] OTHER -> Outcome("none", << >>, Drop(body, len), "")

\* RawChatPacket
RawChatPacket(proto_ver, operation, payload) ==
    [proto_ver |-> proto_ver, operation |-> operation, payload |-> payload]

\* Encode as it would be were total_length the length of the payload alone
EncodePayloadLength(pk) ==
    PutU32(Len(pk.payload)) \o PutU16(HEADER_LENGTH)
        \o PutU16(pk.proto_ver) \o PutU32(pk.operation)
        \o PutU32(SEQUENCE_ID_DEFAULT) \o pk.payload

\* <ChatCodec as Encoder>::encode: the bytes put into dst
Encode(pk) ==
    PutU32(HEADER_LENGTH + Len(pk.payload)) \o PutU16(HEADER_LENGTH)
        \o PutU16(pk.proto_ver) \o PutU32(pk.operation)
        \o PutU32(SEQUENCE_ID_DEFAULT) \o pk.payload

\* format!("{}", n) for a u32: the ASCII decimal digits of n
RECURSIVE Decimal(_)
Decimal(n) == IF n < 10 THEN << 48 + n >> ELSE Decimal(n \div 10) \o << 48 + (n % 10) >>

\* RawChatPacket::authenticate: {"roomid":<room_id>,"protover":2}
Authenticate(room_id) ==
    RawChatPacket(1, OP_USER_AUTHENTICATION,
        << 123, 34, 114, 111, 111, 109, 105, 100, 34, 58 >> \o Decimal(room_id)
            \o << 44 >> \o << 34, 112, 114, 111, 116, 111, 118, 101, 114, 34, 58, 50, 125 >>)

\* RawChatPacket::heartbeat
Heartbeat == RawChatPacket(1, OP_HEARTBEAT, << >>)


(***************************************************************************)
(* The peer: the frames a server can put on the wire.  A frame is          *)
(* described by its kind; FrameBytes gives its bytes.                      *)
(***************************************************************************)
\* the 16-byte header with declared length len, then the payload
WireFrame(len, ver, op, payload) ==
    PutU32(len) \o PutU16(HEADER_LENGTH) \o PutU16(ver) \o PutU32(op)
        \o PutU32(SEQUENCE_ID_DEFAULT) \o payload

\* one sub-frame of a batch: its own header, then the JSON text
SubFrame(text) == WireFrame(HEADER_LENGTH + Len(text), 0, OP_MESSAGE, text)

\* a zlib stream holding data in one stored deflate block
Compress(data) ==
    << 120, 1, 1, Len(data) % 256, Len(data) \div 256,
       255 - (Len(data) % 256), 255 - (Len(data) \div 256) >>
        \o data \o Adler32(data)

\* a zlib stream whose Adler-32 checksum is wrong
Corrupt(z) == [z EXCEPT ![Len(z)] = (z[Len(z)] + 1) % 256]

Texts == << TxtEmpty, TxtUnknown, TxtLive >>

RECURSIVE SeqsUpTo(_, _)
SeqsUpTo(S, n) ==
    IF n = 0 THEN { << >> }
    ELSE LET shorter == SeqsUpTo(S, n - 1)
         IN  shorter \cup { Append(q, x) : q \in shorter, x \in S }

Desc(kind, n, texts) == [kind |-> kind, n |-> n, texts |-> texts]

\* the batches: every sequence of at most MaxSub JSON texts
Batches == { Desc("batch", 0, ts) : ts \in SeqsUpTo(1..Len(Texts), MaxSub) }

\* frames with total_length = 16 + len(payload) that decode accepts
GoodFrames ==
    { Desc("cs", 0, << >>), Desc("hb", 100, << >>), Desc("unk", 0, << >>),
      Desc("hblong", 100, << >>) }
        \cup { Desc("msg0", 0, << t >>) : t \in 1..Len(Texts) }
        \cup Batches

\* frames with a framing error: unsupported version, corrupt zlib stream
FatalFrames == { Desc("badver", 0, << 3 >>), Desc("badzlib", 0, << 1, 3 >>) }

\* frames that break decode's assumptions: a 2-byte HeartbeatReply payload,
\* a payload that is no JSON document, a declared length of 8, a
\* ConnectSuccess header with a declared length of 0
BrokenFrames == { Desc("hbshort", 0, << >>), Desc("badjson", 0, << >>),
                  Desc("short8", 0, << >>), Desc("zerolen", 0, << >>) }

BatchData(texts) == Flatten([i \in 1..Len(texts) |-> SubFrame(Texts[texts[i]])])

FrameBytes(d) ==
    CASE d.kind = "cs" -> WireFrame(HEADER_LENGTH, 1, OP_CONNECT_SUCCESS, << >>)
      [] d.kind = "hb" -> WireFrame(HEADER_LENGTH + 4, 1, OP_HEARTBEAT_REPLY, PutU32(d.n))
      [] d.kind = "unk" -> WireFrame(HEADER_LENGTH + 2, 1, 9, << 1, 2 >>)
      [] d.kind = "hblong" ->
            WireFrame(HEADER_LENGTH + 6, 1, OP_HEARTBEAT_REPLY, PutU32(d.n) \o << 1, 2 >>)
      [] d.kind = "msg0" ->
            WireFrame(HEADER_LENGTH + Len(Texts[d.texts[1]]), 0, OP_MESSAGE, Texts[d.texts[1]])
      [] d.kind = "batch" ->
            LET z == Compress(BatchData(d.texts))
            IN  WireFrame(HEADER_LENGTH + Len(z), 2, OP_MESSAGE, z)
      [] d.kind = "badver" ->
            WireFrame(HEADER_LENGTH + Len(Texts[d.texts[1]]), 99, OP_MESSAGE, Texts[d.texts[1]])
      [] d.kind = "badzlib" ->
            LET z == Corrupt(Compress(BatchData(d.texts)))
            IN  WireFrame(HEADER_LENGTH + Len(z), 2, OP_MESSAGE, z)
      [] d.kind = "hbshort" -> WireFrame(HEADER_LENGTH + 2, 1, OP_HEARTBEAT_REPLY, << 0, 100 >>)
      [] d.kind = "badjson" -> WireFrame(HEADER_LENGTH + 1, 0, OP_MESSAGE, TxtBroken)
      [] d.kind = "short8" -> PutU32(8) \o PutU16(HEADER_LENGTH) \o PutU16(1)
      [] d.kind = "zerolen" ->
            PutU32(0) \o PutU16(HEADER_LENGTH) \o PutU16(1) \o PutU32(OP_CONNECT_SUCCESS)
                \o PutU32(SEQUENCE_ID_DEFAULT)

\* the bytes of a sequence of frames
StreamBytes(ds) == Flatten([i \in 1..Len(ds) |-> FrameBytes(ds[i])])


(***************************************************************************)
(* State.                                                                  *)
(***************************************************************************)
VARIABLES
    \* the codec harness: decode called on a buffer that grows by appends
    cIn,         \* the frames whose bytes are fed
    cFed,        \* how many of their bytes have been appended
    cFeeds,      \* how many appends that took (counted up to FeedsCap)
    cBuf,        \* the BytesMut handed to decode
    cGot,        \* the packets decode has returned so far
    cLast,       \* the last decode call: the buffer before it and its outcome
    cPc,         \* "append" | "decode" | "err" | "panic"
    \* the parse harness: Message::parse called on one document
    pIn,         \* the document and the text it was parsed from
    pOut,        \* what Message::parse returned and the Message decode builds
    pPc,         \* "parse" | "done" | "panic"
    \* the encode harness: encode called on one packet, decode on its bytes
    eIn,         \* the RawChatPacket
    eBytes,      \* dst after encode
    eOut,        \* the outcome of decode on eBytes
    ePc,         \* "encode" | "decode" | "done"
    \* the harness of the legacy decoder (src/src/lib.rs)
    lIn,         \* the frames whose bytes are fed
    lFed,        \* how many of their bytes have been appended
    lBuf,        \* the BytesMut handed to decode
    lLast,       \* the last decode call: the buffer before it and its outcome
    lPc,         \* "append" | "decode" | "panic"
    \* connect
    connPc,      \* "resolve" | "tcp" | "run" | "done" | "panicked"
    result,      \* "none" until connect returns, then "ok" or the error
    roomId,      \* the id get_room_id returned (0 before)
    errors,      \* the errors the two loops have hit, oldest first
    \* the peer and the inbound half
    stream,      \* the frames the peer sends
    rcvd,        \* how many bytes of the stream the socket has delivered
    \* FramedRead
    buf,         \* its buffer
    eof,         \* its eof flag
    is_readable, \* its is_readable flag
    \* handle_stream
    streamPc,    \* "next" | "for" | "await"
    streamRet,   \* "running" | "ok" | the error returned
    pending,     \* the packets of `res` the for loop has not reached
    inflight,    \* callback invocations that have not completed
    delivered,   \* every packet handed to the callback, in order
    \* handle_sink
    sinkPc,      \* "auth" | "hb" | "delay"
    sinkRet,     \* "running" | the error returned
    out          \* the frames written to the outbound half

codecVars == << cIn, cFed, cFeeds, cBuf, cGot, cLast, cPc >>
parseVars == << pIn, pOut, pPc >>
encodeVars == << eIn, eBytes, eOut, ePc >>
legacyVars == << lIn, lFed, lBuf, lLast, lPc >>
pureVars == << parseVars, encodeVars, legacyVars >>
connVars == << connPc, result, roomId, errors >>
peerVars == << stream, rcvd >>
readVars == << buf, eof, is_readable >>
streamVars == << streamPc, streamRet, pending, inflight, delivered >>
sinkVars == << sinkPc, sinkRet, out >>
sessionVars == << connVars, peerVars, readVars, streamVars, sinkVars >>
vars == << codecVars, pureVars, sessionVars >>

(***************************************************************************)
(* Inputs.                                                                 *)
(***************************************************************************)
\* the public room number connect is called with
PublicId == 5

\* the room ids the resolver may answer
RoomIds == { 123 }

RECURSIVE Extend(_, _, _)
Extend(firsts, nexts, n) ==
    IF n = 0 THEN { << >> }
    ELSE IF n = 1 THEN { << >> } \cup { << f >> : f \in firsts }
    ELSE LET shorter == Extend(firsts, nexts, n - 1)
         IN  shorter \cup { Append(q, x) : q \in shorter \ { << >> }, x \in nexts }

\* the inputs of the codec harness: every frame alone, and the frames of
\* Chained followed by frames of Followers
Chained == { Desc("cs", 0, << >>), Desc("hb", 100, << >>), Desc("unk", 0, << >>),
             Desc("msg0", 0, << 3 >>), Desc("batch", 0, << 1, 3 >>),
             Desc("hbshort", 0, << >>), Desc("short8", 0, << >>) }

Followers == { Desc("cs", 0, << >>), Desc("hb", 100, << >>) }

CodecInputs ==
    { << f >> : f \in GoodFrames \cup FatalFrames \cup BrokenFrames }
        \cup (Extend(Chained, Followers, MaxCodecFrames) \ { << >> })

\* the streams of the session: a frame of SessionFrames, then frames of
\* SessionFollowers
SessionFrames ==
    { Desc("cs", 0, << >>), Desc("hb", 100, << >>), Desc("unk", 0, << >>),
      Desc("msg0", 0, << 2 >>), Desc("batch", 0, << >>), Desc("batch", 0, << 1, 3 >>),
      Desc("badver", 0, << 3 >>), Desc("badzlib", 0, << 1, 3 >>) }

SessionFollowers ==
    { Desc("cs", 0, << >>), Desc("hb", 100, << >>), Desc("unk", 0, << >>),
      Desc("badzlib", 0, << 1, 3 >>) }

\* a stream whose first two frames decode drops, with a frame behind them
DroppedThenSuccess ==
    { << Desc("unk", 0, << >>), Desc("unk", 0, << >>), Desc("cs", 0, << >>) >> }

\* a stream whose first frame holds a command parse does not know, with two
\* frames decode drops and a ConnectSuccess frame behind it
RawThenLater ==
    { << Desc("msg0", 0, << 2 >>), Desc("unk", 0, << >>), Desc("unk", 0, << >>),
         Desc("cs", 0, << >>) >> }

\* a stream with a HeartbeatReply frame whose payload is longer than the
\* four bytes of the popularity value
PopularityStreams ==
    { << Desc("cs", 0, << >>), Desc("hblong", 100, << >>) >> }

\* the sequences of base, and those of them of two or more frames with up
\* to n frames of tails behind
RECURSIVE Lengthen(_, _, _)
Lengthen(base, tails, n) ==
    IF n <= 0 THEN base
    ELSE LET shorter == Lengthen(base, tails, n - 1)
         IN  shorter \cup { Append(q, x) : q \in { r \in shorter : Len(r) >= 2 }, x \in tails }

\* up to two frames of SessionFrames and SessionFollowers, frames of
\* Followers behind them up to MaxFrames frames in all, and the streams above
SessionStreams ==
    Lengthen(Extend(SessionFrames, SessionFollowers, IF MaxFrames < 2 THEN MaxFrames ELSE 2),
             Followers, MaxFrames - 2)
        \cup DroppedThenSuccess \cup RawThenLater \cup PopularityStreams

\* the streams of the fair runs: their frames give each result of decode
\* (a packet, no item, an error)
FairFrames ==
    { Desc("cs", 0, << >>), Desc("hb", 100, << >>), Desc("unk", 0, << >>),
      Desc("msg0", 0, << 2 >>), Desc("batch", 0, << >>), Desc("badver", 0, << 3 >>) }

FairFollowers == { Desc("cs", 0, << >>), Desc("unk", 0, << >>) }

FairStreams == Extend(FairFrames, FairFollowers, MaxFairFrames)

\* the inputs of the legacy decoder's harness: frames that declare at least
\* 16 bytes, alone and with a frame of Followers behind
LegacyFrames ==
    { Desc("cs", 0, << >>), Desc("hb", 100, << >>), Desc("hblong", 100, << >>),
      Desc("hbshort", 0, << >>), Desc("unk", 0, << >>), Desc("msg0", 0, << 1 >>),
      Desc("msg0", 0, << 3 >>), Desc("badjson", 0, << >>) }

LegacyInputs == Extend(LegacyFrames, Followers, MaxLegacyFrames) \ { << >> }

\* the bytes of every input, computed once
Wire ==
    [ds \in CodecInputs \cup SessionStreams \cup FairStreams \cup LegacyInputs
        |-> StreamBytes(ds)]

(***************************************************************************)
(* The codec harness: append some bytes and call decode, again while it    *)
(* consumes frames.                                                        *)
(***************************************************************************)
NoCall == [before |-> << >>, out |-> Outcome("", << >>, << >>, "")]

CodecIdle ==
    /\ cIn = << >> /\ cFed = 0 /\ cFeeds = 0 /\ cBuf = << >> /\ cGot = << >>
    /\ cLast = NoCall /\ cPc = "append"

NoParse == [ret |-> "", msg |-> NoMsg]

ParseIdle == pIn = [json |-> NullDoc, text |-> << >>] /\ pOut = NoParse /\ pPc = "done"

LegacyIdle == lIn = << >> /\ lFed = 0 /\ lBuf = << >> /\ lLast = NoCall /\ lPc = "append"

EncodeIdle ==
    /\ eIn = RawChatPacket(0, 0, << >>) /\ eBytes = << >>
    /\ eOut = Outcome("", << >>, << >>, "") /\ ePc = "done"

SessionIdle ==
    /\ connPc = "done" /\ result = "none" /\ roomId = 0 /\ errors = << >>
    /\ stream = << >> /\ rcvd = 0
    /\ buf = << >> /\ eof = FALSE /\ is_readable = FALSE
    /\ streamPc = "next" /\ streamRet = "running" /\ pending = << >>
    /\ inflight = << >> /\ delivered = << >>
    /\ sinkPc = "auth" /\ sinkRet = "running" /\ out = << >>

CodecInit ==
    /\ cIn \in CodecInputs
    /\ cFed = 0 /\ cFeeds = 0 /\ cBuf = << >> /\ cGot = << >>
    /\ cLast = NoCall /\ cPc = "append"
    /\ ParseIdle /\ EncodeIdle /\ LegacyIdle
    /\ SessionIdle

\* the harness after a decode call with outcome r on buffer before
AfterDecode(before, r) ==
    /\ cLast' = [before |-> before, out |-> r]
    /\ cBuf' = r.rest
    /\ cGot' = cGot \o r.pk
    /\ cPc' = CASE r.kind = "err" -> "err"
                [] r.kind = "panic" -> "panic"
                [] r.kind = "none" /\ r.rest = before -> "append"
                [] OTHER -> "decode"

\* append the next k bytes and call decode
CodecFeed ==
    /\ cPc = "append"
    /\ \E k \in 1..(Len(Wire[cIn]) - cFed) :
          LET src == cBuf \o SubSeq(Wire[cIn], cFed + 1, cFed + k)
          IN  /\ cFed' = cFed + k
              /\ AfterDecode(src, Decode(src))
    /\ cFeeds' = IF cFeeds < FeedsCap THEN cFeeds + 1 ELSE cFeeds
    /\ UNCHANGED << cIn, pureVars, sessionVars >>

\* call decode again after a call that consumed a frame
CodecAgain ==
    /\ cPc = "decode"
    /\ Len(cGot) < MaxGot
    /\ AfterDecode(cBuf, Decode(cBuf))
    /\ UNCHANGED << cIn, cFed, cFeeds, pureVars, sessionVars >>

CodecNext == CodecFeed \/ CodecAgain

CodecSpec == CodecInit /\ [][CodecNext]_vars


(***************************************************************************)
(* The parse harness: Message::parse on one JSON document, and what decode *)
(* makes of its result.  The documents give every field that a known       *)
(* command reads each of its shapes: absent, of the type read, of another  *)
(* type.                                                                   *)
(***************************************************************************)
\* the leaves Message::parse reads for each known command, with the
\* extraction applied to each
Recipes ==
    [ PREPARING |-> << >>,
      LIVE |-> << >>,
      ROOM_CHANGE |-> << << "data.title", "str" >>, << "data.area_name", "str" >>,
                         << "data.parent_area_name", "str" >> >>,
      DANMU_MSG |-> << << "info.0.1", "u32" >>, << "info.0.2", "u32" >>,
                       << "info.0.3", "u32" >>, << "info.0.5", "i32" >>,
                       << "info.1", "str" >>, << "info.0.9", "u32" >>,
                       << "info.2.0", "u32" >>, << "info.2.1", "str" >> >>,
      SEND_GIFT |-> << << "data.action", "str" >>, << "data.giftName", "str" >>,
                       << "data.num", "u32" >>, << "data.uid", "u32" >>,
                       << "data.uname", "str" >> >>,
      COMBO_END |-> << << "data.action", "str" >>, << "data.gift_name", "str" >>,
                       << "data.combo_num", "u32" >>, << "data.uid", "u32" >>,
                       << "data.uname", "str" >> >>,
      WELCOME |-> << << "data.vip", "flag" >>, << "data.is_admin", "bool" >>,
                     << "data.svip", "flag" >>, << "data.uid", "u32" >>,
                     << "data.uname", "str" >> >>,
      WELCOME_GUARD |-> << << "data.guard_level", "ordinal" >>, << "data.uid", "u32" >>,
                           << "data.username", "str" >> >>,
      ROOM_RANK |-> << << "data.rank_desc", "str" >>, << "data.color", "str" >>,
                       << "data.timestamp", "u32" >> >>,
      ENTRY_EFFECT |-> << << "data.id", "u32" >>, << "data.uid", "u32" >>,
                          << "data.target_id", "u32" >>, << "data.face", "str" >>,
                          << "data.copy_writing", "str" >>,
                          << "data.copy_color", "str" >> >>,
      NOTICE_MSG |-> << << "roomid", "u32" >>, << "real_roomid", "u32" >>,
                        << "msg_common", "str" >>, << "msg_self", "str" >> >>,
      ROOM_REAL_TIME_MESSAGE_UPDATE |-> << << "data.fans", "u32" >> >>,
      SUPER_CHAT_MESSAGE |-> << << "data.id", "str" >>, << "data.uid", "u32" >>,
                                << "data.price", "u32" >>, << "data.message", "str" >>,
                                << "data.user_info.uname", "str" >> >>,
      SUPER_CHAT_MESSAGE_JPN |-> << << "data.id", "str" >>, << "data.uid", "str" >>,
                                    << "data.price", "u32" >>, << "data.message", "str" >>,
                                    << "data.message_jpn", "str" >>,
                                    << "data.user_info.uname", "str" >> >>,
      HOT_ROOM_NOTIFY |-> << >> ]

KnownCommands == DOMAIN Recipes

\* the leaves a document may hold where a value of type ty is read
Leaves(ty) ==
    CASE ty = "str" -> { JNull, JStr("s"), JNum(7) }
      [] ty = "u32" -> { JNull, JNum(7), JStr("s") }
      [] ty = "i32" -> { JNull, JNum(-7), JStr("s") }
      [] ty = "bool" -> { JNull, JBool(TRUE), JNum(1) }
      [] ty = "flag" -> { JNull, JNum(0), JNum(1), JStr("s") }
      [] ty = "ordinal" -> { JNull, JStr("s"), JNum(-1) } \cup { JNum(n) : n \in 0..MaxOrdinal }

\* the leaves among them that the extraction of type ty refuses
Refused(ty) ==
    CASE ty = "str" -> { JNull, JNum(7) }
      [] ty = "bool" -> { JNull, JNum(1) }
      [] ty = "flag" -> { JNull, JStr("s") }
      [] ty = "ordinal" -> { JNull, JStr("s"), JNum(-1) }
      [] OTHER -> { JNull, JStr("s") }

\* the documents that extend base with a leaf for each field of fields, at
\* most bad of them refused
RECURSIVE DocsOver(_, _, _)
DocsOver(fields, base, bad) ==
    IF fields = << >> THEN { base }
    ELSE LET f == Head(fields)
         IN  UNION { DocsOver(Tail(fields), [base EXCEPT ![f[1]] = v],
                              IF v \in Refused(f[2]) THEN bad - 1 ELSE bad) :
                        v \in { w \in Leaves(f[2]) : bad > 0 \/ w \notin Refused(f[2]) } }

\* documents of a known command, of an unknown command, and without a
\* command tag that is a string
ParseDocs ==
    UNION { DocsOver(Recipes[c], Doc("cmd" :> JStr(c)), MaxRefused) : c \in KnownCommands }
        \cup DocsOver(<< << "data.uid", "u32" >>, << "data.uname", "str" >> >>,
                      Doc("cmd" :> JStr("X")), MaxRefused)
        \cup { NullDoc, Doc("cmd" :> JNum(7)),
               Doc(("cmd" :> JNum(7)) @@ ("data.uid" :> JNum(7))),
               Doc(("cmd" :> JStr("SOME_FUTURE_EVENT")) @@ ("data.title" :> JStr("s"))),
               Doc("cmd" :> JStr("live")) }

\* the texts a document comes with: the text is only kept, never read
ParseTexts == { << 123, 125 >>, << 123, 32, 125 >> }

\* `Message::parse(json).unwrap_or_else(|| Message::ParsingError(str.to_owned()))`
UnwrapOrElse(m, str) == IF m.kind = "some" THEN m.msg ELSE ParsingError(str)

ParseInit ==
    /\ CodecIdle /\ EncodeIdle /\ LegacyIdle /\ SessionIdle
    /\ pIn \in [json : ParseDocs, text : ParseTexts]
    /\ pOut = NoParse /\ pPc = "parse"

\* decode, lines 197-199, on the document json parsed from str
ParseCall ==
    /\ pPc = "parse"
    /\ LET m == MessageParse(pIn.json)
       IN  IF m.kind = "panic"
           THEN pOut' = [ret |-> "panic", msg |-> NoMsg] /\ pPc' = "panic"
           ELSE pOut' = [ret |-> m.kind, msg |-> UnwrapOrElse(m, pIn.text)] /\ pPc' = "done"
    /\ UNCHANGED << codecVars, encodeVars, legacyVars, sessionVars, pIn >>

ParseSpec == ParseInit /\ [][ParseCall]_vars


(***************************************************************************)
(* The encode harness: encode on one RawChatPacket, then decode on the     *)
(* bytes it put into dst.                                                  *)
(***************************************************************************)
EncodeVersions == { 0, 1, 2 }

EncodeOperations ==
    { OP_HEARTBEAT, OP_HEARTBEAT_REPLY, OP_MESSAGE, OP_USER_AUTHENTICATION,
      OP_CONNECT_SUCCESS, 9 }

EncodePayloads == { << >>, << 1, 2 >>, << 0, 0, 0, 100 >>, TxtLive }

\* the two packets handle_sink sends, and every packet over the versions,
\* operations and payloads above
EncodeInputs ==
    { Authenticate(id) : id \in RoomIds } \cup { Heartbeat }
        \cup { RawChatPacket(v, o, p) :
                  v \in EncodeVersions, o \in EncodeOperations, p \in EncodePayloads }

EncodeInit ==
    /\ CodecIdle /\ ParseIdle /\ LegacyIdle /\ SessionIdle
    /\ eIn \in EncodeInputs /\ eBytes = << >>
    /\ eOut = Outcome("", << >>, << >>, "") /\ ePc = "encode"

\* encode(pk, &mut dst) on an empty dst
EncodeCall ==
    /\ ePc = "encode"
    /\ eBytes' = Encode(eIn)
    /\ ePc' = "decode"
    /\ UNCHANGED << codecVars, parseVars, legacyVars, sessionVars, eIn, eOut >>

\* decode(&mut src) on the bytes encode produced
DecodeBack ==
    /\ ePc = "decode"
    /\ eOut' = Decode(eBytes)
    /\ ePc' = "done"
    /\ UNCHANGED << codecVars, parseVars, legacyVars, sessionVars, eIn, eBytes >>

EncodeNext == EncodeCall \/ DecodeBack

EncodeSpec == EncodeInit /\ [][EncodeNext]_vars


(***************************************************************************)
(* connect: resolve the room, open the socket, then try_join! the two      *)
(* loops.                                                                  *)
(***************************************************************************)
ErrResolve == "room resolution failed"
ErrConnect == "tcp connect failed"
ErrRead == "socket read failed"
ErrSend == "socket send failed"
ErrRemaining == "bytes remaining on stream"

Init ==
    /\ CodecIdle /\ ParseIdle /\ EncodeIdle /\ LegacyIdle
    /\ connPc = "resolve" /\ result = "none" /\ roomId = 0 /\ errors = << >>
    /\ stream \in SessionStreams /\ rcvd = 0
    /\ buf = << >> /\ eof = FALSE /\ is_readable = FALSE
    /\ streamPc = "next" /\ streamRet = "running" /\ pending = << >>
    /\ inflight = << >> /\ delivered = << >>
    /\ sinkPc = "auth" /\ sinkRet = "running" /\ out = << >>

\* `get_room_id(id).await?` succeeds
ResolveOk ==
    /\ connPc = "resolve"
    /\ \E id \in RoomIds : roomId' = id
    /\ connPc' = "tcp"
    /\ UNCHANGED << codecVars, pureVars, result, errors, peerVars, readVars, streamVars, sinkVars >>

\* ResolveFail as it would be were the resolver's error dropped and the
\* connection opened all the same
ResolveFailIgnored ==
    /\ connPc = "resolve"
    /\ connPc' = "tcp"
    /\ UNCHANGED << codecVars, pureVars, result, roomId, errors, peerVars, readVars,
                    streamVars, sinkVars >>

\* `get_room_id(id).await?` fails: connect returns the error
ResolveFail ==
    /\ connPc = "resolve"
    /\ connPc' = "done" /\ result' = ErrResolve
    /\ UNCHANGED << codecVars, pureVars, roomId, errors, peerVars, readVars, streamVars, sinkVars >>

\* get_room_id panics: the answer is no JSON document, or lacks the field
\* an unwrap expects
ResolvePanic ==
    /\ connPc = "resolve"
    /\ connPc' = "panicked"
    /\ UNCHANGED << codecVars, pureVars, result, roomId, errors, peerVars, readVars,
                    streamVars, sinkVars >>

\* `TcpStream::connect(ADDR).await?` succeeds; the halves are framed
TcpOk ==
    /\ connPc = "tcp"
    /\ connPc' = "run"
    /\ UNCHANGED << codecVars, pureVars, result, roomId, errors, peerVars, readVars, streamVars,
                    sinkVars >>

\* `TcpStream::connect(ADDR).await?` fails
TcpFail ==
    /\ connPc = "tcp"
    /\ connPc' = "done" /\ result' = ErrConnect
    /\ UNCHANGED << codecVars, pureVars, roomId, errors, peerVars, readVars, streamVars, sinkVars >>

IsErr(r) == r \notin { "running", "ok" }

\* TryJoin as it would be were the two loops joined with join!, which waits
\* for both before it looks at either result
TryJoinWaitsForBoth(sr, kr) ==
    CASE sr = "running" \/ kr = "running" -> "none"
      [] IsErr(sr) -> sr
      [] IsErr(kr) -> kr
      [] OTHER -> "ok"

\* tokio::try_join!: the first Err at once, Ok when both are Ok, else pending
TryJoin(sr, kr) ==
    CASE IsErr(sr) -> sr
      [] IsErr(kr) -> kr
      [] sr = "ok" /\ kr = "ok" -> "ok"
      [] OTHER -> "none"

\* `try_join!(..)?; Ok(())` with the loops at sr and kr
Settle(sr, kr) ==
    /\ result' = TryJoin(sr, kr)
    /\ connPc' = IF TryJoin(sr, kr) = "none" THEN "run" ELSE "done"

\* StreamRunning as it would be were handle_stream a task of its own, which
\* goes on after connect has returned
StreamRunningDetached == connPc \in { "run", "done" } /\ streamRet = "running"

\* handle_stream is polled only inside connect's try_join!
StreamRunning == connPc = "run" /\ streamRet = "running"

\* SinkRunning as it would be were the sink loop polled only between callbacks
SinkRunningBetweenCallbacks == connPc = "run" /\ sinkRet = "running" /\ streamPc # "await"

SinkRunning == connPc = "run" /\ sinkRet = "running"

(***************************************************************************)
(* handle_stream over FramedRead<_, ChatCodec>.                            *)
(***************************************************************************)
\* handle_stream returns r
StreamReturn(r) ==
    /\ streamRet' = r
    /\ errors' = IF IsErr(r) THEN Append(errors, r) ELSE errors
    /\ Settle(r, sinkRet)

\* stream.next(): FramedRead calls decode (decode_eof after EOF) on its buffer
StreamDecode ==
    /\ StreamRunning /\ streamPc = "next" /\ is_readable
    /\ LET r == Decode(buf) IN
       CASE r.kind = "some" ->
               /\ buf' = r.rest /\ pending' = r.pk /\ streamPc' = "for"
               /\ UNCHANGED << connVars, eof, is_readable, streamRet, inflight, delivered >>
         [] r.kind = "none" /\ ~eof ->
               /\ buf' = r.rest /\ is_readable' = FALSE
               /\ UNCHANGED << connVars, eof, streamVars >>
         [] r.kind = "none" /\ eof ->
               /\ buf' = r.rest
               /\ StreamReturn(IF r.rest = << >> THEN "ok" ELSE ErrRemaining)
               /\ UNCHANGED << roomId, eof, is_readable, streamPc, pending, inflight,
                               delivered >>
         [] r.kind = "err" ->
               /\ StreamReturn(r.err)
               /\ UNCHANGED << roomId, readVars, streamPc, pending, inflight, delivered >>
         [] r.kind = "panic" ->
               /\ connPc' = "panicked"
               /\ UNCHANGED << result, roomId, errors, readVars, streamVars >>
    /\ UNCHANGED << codecVars, pureVars, peerVars, sinkVars >>

\* stream.next(): FramedRead reads k more bytes from the socket
StreamRead ==
    /\ StreamRunning /\ streamPc = "next" /\ ~is_readable /\ ~eof
    /\ \E k \in 1..(Len(Wire[stream]) - rcvd) :
          /\ buf' = buf \o SubSeq(Wire[stream], rcvd + 1, rcvd + k)
          /\ rcvd' = rcvd + k
    /\ is_readable' = TRUE
    /\ UNCHANGED << codecVars, pureVars, connVars, stream, eof, streamVars, sinkVars >>

\* stream.next(): the read returns 0 bytes, the peer has closed after its
\* last byte
StreamReadEof ==
    /\ StreamRunning /\ streamPc = "next" /\ ~is_readable /\ ~eof
    /\ rcvd = Len(Wire[stream])
    /\ eof' = TRUE /\ is_readable' = TRUE
    /\ UNCHANGED << codecVars, pureVars, connVars, peerVars, buf, streamVars, sinkVars >>

\* stream.next(): the read fails
StreamReadErr ==
    /\ StreamRunning /\ streamPc = "next" /\ ~is_readable /\ ~eof
    /\ StreamReturn(ErrRead)
    /\ UNCHANGED << codecVars, pureVars, roomId, peerVars, readVars, streamPc, pending, inflight,
                    delivered, sinkVars >>

\* `for pk in res?`: the packet the loop takes next
NextPacket(res) == Head(res)

\* AfterCall as it would be were the callback's future spawned, not awaited
AfterCallSpawned(rest) == IF rest = << >> THEN "next" ELSE "for"

\* `handle_packet(pk).await`: handle_stream waits for the callback's future
AfterCall(rest) == "await"

\* `handle_packet(pk)` for the next packet of res
CallbackStart ==
    /\ StreamRunning /\ streamPc = "for"
    /\ inflight' = Append(inflight, NextPacket(pending))
    /\ delivered' = Append(delivered, NextPacket(pending))
    /\ pending' = Tail(pending)
    /\ streamPc' = AfterCall(Tail(pending))
    /\ UNCHANGED << codecVars, pureVars, connVars, peerVars, readVars, streamRet, sinkVars >>

\* `.await` of the callback's future completes
CallbackDone ==
    /\ StreamRunning /\ streamPc = "await"
    /\ inflight' = Tail(inflight)
    /\ streamPc' = IF pending = << >> THEN "next" ELSE "for"
    /\ UNCHANGED << codecVars, pureVars, connVars, peerVars, readVars, streamRet, pending,
                    delivered, sinkVars >>

(***************************************************************************)
(* handle_sink over FramedWrite<_, ChatCodec>.                             *)
(***************************************************************************)
Heartbeats(o) == Cardinality({ i \in 1..Len(o) : o[i] = Encode(Heartbeat) })

\* SinkAuth as it would be were handle_sink given the public room number
SinkAuthPublicId ==
    /\ SinkRunning /\ sinkPc = "auth"
    /\ out' = Append(out, Encode(Authenticate(PublicId)))
    /\ sinkPc' = "hb"
    /\ UNCHANGED << codecVars, pureVars, connVars, peerVars, readVars, streamVars, sinkRet >>

\* `sink.send(RawChatPacket::authenticate(id)).await?` succeeds
SinkAuth ==
    /\ SinkRunning /\ sinkPc = "auth"
    /\ out' = Append(out, Encode(Authenticate(roomId)))
    /\ sinkPc' = "hb"
    /\ UNCHANGED << codecVars, pureVars, connVars, peerVars, readVars, streamVars, sinkRet >>

\* `sink.send(RawChatPacket::heartbeat()).await?` succeeds
SinkHeartbeat ==
    /\ SinkRunning /\ sinkPc = "hb"
    /\ out' = IF Heartbeats(out) < MaxHeartbeats THEN Append(out, Encode(Heartbeat))
              ELSE out
    /\ sinkPc' = "delay"
    /\ UNCHANGED << codecVars, pureVars, connVars, peerVars, readVars, streamVars, sinkRet >>

\* either send fails: handle_sink returns the error
SinkSendFail ==
    /\ SinkRunning /\ sinkPc \in { "auth", "hb" }
    /\ sinkRet' = ErrSend
    /\ errors' = Append(errors, ErrSend)
    /\ Settle(streamRet, ErrSend)
    /\ UNCHANGED << codecVars, pureVars, roomId, peerVars, readVars, streamVars, sinkPc, out >>

\* `time::delay_for(HEARTBEAT_DELAY).await` completes
SinkTimer ==
    /\ SinkRunning /\ sinkPc = "delay"
    /\ sinkPc' = "hb"
    /\ UNCHANGED << codecVars, pureVars, connVars, peerVars, readVars, streamVars, sinkRet, out >>

StreamStep ==
    \/ StreamDecode \/ StreamRead \/ StreamReadEof \/ StreamReadErr
    \/ CallbackStart \/ CallbackDone

SinkStep == SinkAuth \/ SinkHeartbeat \/ SinkSendFail \/ SinkTimer

Next ==
    \/ ResolveOk \/ ResolveFail \/ ResolvePanic \/ TcpOk \/ TcpFail
    \/ StreamDecode \/ StreamRead \/ StreamReadEof \/ StreamReadErr
    \/ CallbackStart \/ CallbackDone
    \/ SinkAuth \/ SinkHeartbeat \/ SinkSendFail \/ SinkTimer

Spec == Init /\ [][Next]_vars


(***************************************************************************)
(* The same program under the scheduling the runtime guarantees: a loop    *)
(* that can take a step is polled, a send completes (or fails), the timer  *)
(* fires.  Nothing makes the peer send or the callback's future complete.  *)
(***************************************************************************)
FairInit == Init /\ stream \in FairStreams

FairSpec ==
    /\ FairInit /\ [][Next]_vars
    /\ WF_vars(StreamDecode) /\ WF_vars(CallbackStart) /\ WF_vars(SinkStep)


(***************************************************************************)
(* What the peer's frames mean, written from the wire format: the packets  *)
(* each frame is to yield, and where the frames start in the byte stream.  *)
(***************************************************************************)
IsPrefix(p, q) == Len(p) <= Len(q) /\ p = SubSeq(q, 1, Len(p))

\* the Message the t-th JSON text of Texts is to become
WantMsg(t) ==
    CASE t = 1 -> Msg("ParsingError", << >>, TxtEmpty, NullDoc)
      [] t = 2 -> Msg("Raw", << >>, << >>, Doc("cmd" :> JStr("X")))
      [] t = 3 -> Msg("Live", << >>, << >>, NullDoc)

\* the packets of one frame, in order
Expect(d) ==
    CASE d.kind = "cs" -> << [t |-> "ConnectSuccess", n |-> 0, msg |-> NoMsg] >>
      [] d.kind \in { "hb", "hblong" } -> << [t |-> "Popularity", n |-> d.n, msg |-> NoMsg] >>
      [] d.kind \in { "msg0", "batch" } ->
            [i \in 1..Len(d.texts) |-> [t |-> "Message", n |-> 0, msg |-> WantMsg(d.texts[i])]]
      [] OTHER -> << >>

\* the packets of the first c frames of ds
ExpectUpTo(ds, c) == Flatten([i \in 1..c |-> Expect(ds[i])])

\* the length of every frame, computed once
FrameLen == [d \in GoodFrames \cup FatalFrames \cup BrokenFrames |-> Len(FrameBytes(d))]

\* the offset at which frame c + 1 of ds starts
RECURSIVE Boundary(_, _)
Boundary(ds, c) == IF c = 0 THEN 0 ELSE Boundary(ds, c - 1) + FrameLen[ds[c]]

WellFormed(d) == d \in GoodFrames \cup FatalFrames

(***************************************************************************)
(* Claims about the codec, checked under CodecSpec.                        *)
(***************************************************************************)

\* C1: partial-read resumability.  A well-formed frame fed in chunks, with
\* decode called after each append, yields nothing and consumes nothing
\* until its last byte is in, and then exactly what one decode call on the
\* whole frame yields: the same packets, the same buffer left, an error in
\* the same case.
C1_PartialReadResumable ==
    (Len(cIn) = 1 /\ WellFormed(cIn[1])) =>
        IF cFed < Len(Wire[cIn])
        THEN cGot = << >> /\ cBuf = Take(Wire[cIn], cFed) /\ cPc = "append"
        ELSE LET whole == Decode(Wire[cIn])
             IN  /\ cGot = whole.pk
                 /\ cBuf = whole.rest
                 /\ (cPc = "err") = (whole.kind = "err")
                 /\ cPc # "panic"

\* a batch of two sub-frames has arrived in more than one chunk and its two
\* packets are out
C1_Witness ==
    /\ cIn = << Desc("batch", 0, << 1, 3 >>) >>
    /\ cFed = Len(Wire[cIn]) /\ cFeeds >= 2 /\ Len(cGot) = 2

\* C4: decode advances the buffer by exactly total_length for every
\* complete frame it accepts, whatever the opcode branch, so the buffer
\* always starts at a frame boundary of the byte stream.
C4_AdvancesByTotalLength ==
    /\ (/\ cLast.out.kind \in { "some", "none" }
        /\ Len(cLast.before) >= 4
        /\ Len(cLast.before) >= U32(cLast.before, 1))
          => cLast.out.rest = Drop(cLast.before, U32(cLast.before, 1))
    /\ cPc # "panic" =>
          \E c \in 0..Len(cIn) :
              /\ Boundary(cIn, c) <= cFed
              /\ cBuf = SubSeq(Wire[cIn], Boundary(cIn, c) + 1, cFed)

\* a compressed batch and a HeartbeatReply have both been consumed
C4_Witness ==
    /\ cIn = << Desc("batch", 0, << 1, 3 >>), Desc("hb", 100, << >>) >>
    /\ cFed = Len(Wire[cIn]) /\ cBuf = << >> /\ Len(cGot) = 3

\* C5: with fewer than 4 bytes buffered, or fewer than total_length, decode
\* asks for more data, consumes no byte and emits no packet; nothing of the
\* frame is interpreted (no error, no panic) before its last byte is in.
C5_NeedMoreConsumesNothing ==
    (/\ cLast.out.kind # ""
     /\ \/ Len(cLast.before) < 4
        \/ Len(cLast.before) < U32(cLast.before, 1))
      => /\ cLast.out = Outcome("none", << >>, cLast.before, "")
         /\ cBuf = cLast.before
         /\ cPc = "append"

\* the whole header of a frame with an unsupported version is buffered, its
\* payload is not, and decode has asked for more
C5_Witness ==
    /\ cIn[1].kind = "badver"
    /\ cFed >= HEADER_LENGTH /\ cFed < Len(FrameBytes(cIn[1]))
    /\ cLast.before = Take(Wire[cIn], cFed) /\ cLast.out.kind = "none"

\* C6: batch expansion.  A version-2 Message frame whose payload inflates
\* to N sub-frames of differing lengths decodes to exactly N Message
\* packets in the original order, the i-th built from the JSON bytes of the
\* i-th sub-frame, and the frame is consumed whole.
C6_BatchExpansion ==
    (Len(cIn) = 1 /\ cIn[1].kind = "batch" /\ cFed = Len(Wire[cIn])) =>
        /\ cGot = [i \in 1..Len(cIn[1].texts) |->
                      [t |-> "Message", n |-> 0, msg |-> WantMsg(cIn[1].texts[i])]]
        /\ cBuf = << >>
        /\ cPc \notin { "err", "panic" }

\* a batch whose two sub-frames differ in length has been decoded
C6_Witness ==
    /\ cIn = << Desc("batch", 0, << 3, 1 >>) >>
    /\ cFed = Len(Wire[cIn]) /\ Len(cGot) = 2
    /\ cGot[1].msg.variant = "Live" /\ cGot[2].msg.variant = "ParsingError"


(***************************************************************************)
(* Claims about the session, checked under Spec and FairSpec.              *)
(***************************************************************************)
FatalKinds == { "badver", "badzlib" }

\* the index of the first frame of ds that decode fails on, Len(ds) + 1 if
\* there is none
FirstFatal(ds) ==
    IF \E i \in 1..Len(ds) : ds[i].kind \in FatalKinds
    THEN CHOOSE i \in 1..Len(ds) :
            /\ ds[i].kind \in FatalKinds
            /\ \A j \in 1..(i - 1) : ds[j].kind \notin FatalKinds
    ELSE Len(ds) + 1

\* C2: when the peer closes the inbound stream cleanly and no read, decode
\* or send error occurs, connect eventually returns Ok to the caller.
C2_CleanCloseReturnsOk ==
    [](streamRet = "ok" => <>(result = "ok" \/ errors # << >>))

\* C3: packets reach the callback in wire order and exactly once.  What has
\* been handed to the callback is always a prefix of the concatenation of
\* the frames' packets, and once the inbound loop has ended on the peer's
\* close of a stream of decodable frames, every packet of every frame has
\* been handed over: none duplicated, none skipped.
C3_WireOrderExactlyOnce ==
    /\ IsPrefix(delivered, ExpectUpTo(stream, Len(stream)))
    /\ (streamRet \in { "ok", ErrRemaining } /\ FirstFatal(stream) > Len(stream))
          => delivered = ExpectUpTo(stream, Len(stream))

\* C7: framing errors are fatal and atomic.  When decode fails on a Message
\* frame of unsupported version or with a payload that does not inflate,
\* connect returns that error at once, every packet of the frames before the
\* bad frame has been delivered, and no packet of the bad frame or of a later
\* frame is ever delivered; decode never consumes past the bad frame.
C7_FramingErrorsFatalAtomic ==
    LET before == ExpectUpTo(stream, FirstFatal(stream) - 1)
    IN  /\ IsPrefix(delivered, before)
        /\ rcvd - Len(buf) <= Boundary(stream, FirstFatal(stream) - 1)
        /\ streamRet \in { ErrVersion, ErrDecompress } =>
              /\ FirstFatal(stream) <= Len(stream)
              /\ streamRet = (IF stream[FirstFatal(stream)].kind = "badver"
                              THEN ErrVersion ELSE ErrDecompress)
              /\ result = streamRet /\ connPc = "done"
              /\ delivered = before
              /\ pending = << >> /\ inflight = << >>

\* a batch of two, then a frame that does not inflate: connect has returned
\* the decompression error with the batch's two packets delivered
C7_Witness ==
    /\ stream = << Desc("batch", 0, << 1, 3 >>), Desc("badzlib", 0, << 1, 3 >>) >>
    /\ result = ErrDecompress /\ Len(delivered) = 2

\* C8: if either loop fails, connect terminates with the first error that
\* occurred: it never returns Ok after an error and never keeps running
\* after one.
C8_FirstErrorReturned ==
    /\ Len(errors) <= 1
    /\ errors # << >> => connPc = "done" /\ result = errors[1]
    /\ result = "ok" => errors = << >>
    /\ (IsErr(streamRet) \/ IsErr(sinkRet)) => errors # << >>

\* a send has failed while the inbound loop was suspended in a callback, and
\* connect has returned the send error
C8_Witness ==
    /\ errors = << ErrSend >> /\ result = ErrSend /\ connPc = "done"
    /\ streamPc = "await" /\ streamRet = "running"

\* C9: backpressure.  At most one callback invocation is in flight, and
\* while one is, the inbound loop neither reads from the socket nor calls
\* decode nor hands the next packet to the callback.
C9_Backpressure ==
    /\ [](Len(inflight) <= 1)
    /\ [][inflight # << >> =>
            /\ buf' = buf /\ rcvd' = rcvd /\ eof' = eof /\ is_readable' = is_readable
            /\ delivered' = delivered /\ pending' = pending]_vars

\* a callback is in flight while a packet of the same frame waits and bytes
\* of the peer are still unread
C9_Witness ==
    /\ Len(inflight) = 1 /\ pending # << >> /\ rcvd < Len(Wire[stream])
    /\ connPc = "run"

\* C10: heartbeats are independent of inbound progress.  While the session
\* runs and the sink loop is at its heartbeat send, the send is enabled
\* whatever the inbound loop is doing; and if the inbound loop stays
\* suspended in a callback for ever, heartbeats are sent again and again.
C10_HeartbeatsIndependent ==
    /\ []((connPc = "run" /\ sinkRet = "running" /\ sinkPc = "hb") => ENABLED SinkHeartbeat)
    /\ (<>[](connPc = "run" /\ streamPc = "await") => []<><<SinkHeartbeat>>_vars)

\* the inbound loop is suspended in a callback, a heartbeat has been sent and
\* the next one is due
C10_Witness ==
    /\ connPc = "run" /\ streamPc = "await" /\ inflight # << >>
    /\ sinkPc = "hb" /\ Heartbeats(out) >= 1


\* the Authenticate frame of room 123 and the Heartbeat frame, byte by byte:
\* length, header length 16, version 1, opcode, sequence 1, then
\* {"roomid":123,"protover":2} or nothing
WantAuthFrame ==
    123 :> << 0, 0, 0, 43, 0, 16, 0, 1, 0, 0, 0, 7, 0, 0, 0, 1,
              123, 34, 114, 111, 111, 109, 105, 100, 34, 58, 49, 50, 51, 44,
              34, 112, 114, 111, 116, 111, 118, 101, 114, 34, 58, 50, 125 >>

WantHeartbeatFrame == << 0, 0, 0, 16, 0, 16, 0, 1, 0, 0, 0, 2, 0, 0, 0, 1 >>

\* C11: the outbound byte stream is one Authenticate frame carrying the
\* room id the resolver returned, followed only by Heartbeat frames; nothing
\* is sent before the socket is open and no heartbeat precedes the
\* Authenticate frame.
C11_OutboundAuthThenHeartbeats ==
    /\ connPc \in { "resolve", "tcp" } => out = << >>
    /\ (sinkPc = "auth") <=> (out = << >>)
    /\ out # << >> => roomId \in DOMAIN WantAuthFrame /\ out[1] = WantAuthFrame[roomId]
    /\ \A i \in 2..Len(out) : out[i] = WantHeartbeatFrame

\* the Authenticate frame and a heartbeat have been sent
C11_Witness == Len(out) >= 2 /\ sinkPc = "delay"


\* C12: the orchestrator is linear, Resolve, Connect, Authenticate, Run:
\* the Authenticate frame has been sent before the inbound loop decodes any
\* frame or invokes the callback.
C12_AuthenticateBeforeInbound ==
    (Len(buf) < rcvd \/ pending # << >> \/ delivered # << >>) => out # << >>


\* C13: if room resolution fails, connect returns that error with no socket
\* opened, no frame sent and no callback invoked; a socket is opened, read
\* or written only after the resolver has returned a room id.
C13_ResolveFailureBeforeSocket ==
    /\ result = ErrResolve =>
          /\ connPc = "done" /\ roomId = 0
          /\ out = << >> /\ delivered = << >> /\ inflight = << >>
          /\ rcvd = 0 /\ buf = << >>
          /\ streamRet = "running" /\ sinkRet = "running"
    /\ (\/ connPc \in { "tcp", "run" } \/ result = ErrConnect
        \/ rcvd > 0 \/ out # << >> \/ delivered # << >>
        \/ streamRet # "running" \/ sinkRet # "running") => roomId \in RoomIds

\* the resolver has failed and connect has returned its error
C13_Witness == result = ErrResolve /\ connPc = "done" /\ stream # << >>


\* how many bytes of the peer's stream decode has consumed
Consumed == rcvd - Len(buf)

\* C14: unknown opcodes are not protocol errors.  Once a complete frame
\* with an opcode other than 3, 5 and 8 has been consumed, it has been
\* consumed whole, it has yielded no packet, and the inbound loop has not
\* failed on it: it is running, or it has ended on the peer's close, on a
\* failed read, or on a framing error of the frame behind it.
C14_UnknownOpcodeDropped ==
    \A c \in 1..Len(stream) :
        (stream[c].kind = "unk" /\ Consumed = Boundary(stream, c)) =>
            /\ IsPrefix(delivered, ExpectUpTo(stream, c - 1))
            /\ \/ streamRet \in { "running", "ok", ErrRead }
               \/ /\ c < Len(stream) /\ stream[c + 1].kind \in FatalKinds
                  /\ streamRet \in { ErrVersion, ErrDecompress }


(***************************************************************************)
(* Claims about Message::parse, checked under ParseSpec.                   *)
(***************************************************************************)

\* C15: message parsing never fails the session.  For every document
\* Message::parse returns a Message or no result, which decode turns into
\* ParsingError with the text; it never panics.
C15_ParseNeverPanics ==
    /\ pPc # "panic"
    /\ pPc = "done" =>
          /\ pOut.ret \in { "some", "none" }
          /\ pOut.ret = "none" => pOut.msg = ParsingError(pIn.text)


\* the document of the harness names a known command and lacks, or holds
\* with another type, a field which that command's variant is built from
LacksAField ==
    /\ pIn.json["cmd"].k = "str" /\ pIn.json["cmd"].s \in KnownCommands
    /\ LET fields == Recipes[pIn.json["cmd"].s]
       IN  \E i \in 1..Len(fields) : pIn.json[fields[i][1]] \in Refused(fields[i][2])

\* C16: no default-filled variants.  For a known command, if a field the
\* variant is built from is absent or of the wrong type, what parsing gives
\* back is ParsingError carrying the original text, never a variant with a
\* defaulted or partly filled field.
C16_NoDefaultFilledVariant ==
    (pPc = "done" /\ LacksAField) => pOut.msg = ParsingError(pIn.text)

\* a frame one of whose JSON texts parse answers with ParsingError or Raw
HasParseMiss(d) ==
    /\ d.kind \in { "msg0", "batch" }
    /\ \E i \in 1..Len(d.texts) : WantMsg(d.texts[i]).variant \in { "ParsingError", "Raw" }

\* C17: parse failures and unknown commands are non-fatal.  On a stream with
\* a Message frame that yields a ParsingError or Raw packet and with no frame
\* of unsupported version or corrupt payload, that packet is delivered like
\* any other, the inbound loop ends only on the peer's close or on a read
\* error, and once it has ended on the close every packet of every frame,
\* the later ones included, has been delivered.
C17_ParseMissNonFatal ==
    ((\E c \in 1..Len(stream) : HasParseMiss(stream[c])) /\ FirstFatal(stream) > Len(stream))
        => /\ IsPrefix(delivered, ExpectUpTo(stream, Len(stream)))
           /\ streamRet \in { "running", "ok", ErrRead }
           /\ streamRet = "ok" => delivered = ExpectUpTo(stream, Len(stream))

(***************************************************************************)
(* Claims about encode, checked under EncodeSpec.                          *)
(***************************************************************************)
\* C18 as stated: frame round-trip.  Running decode on the bytes encode
\* produced for (protocol_version, operation, payload) yields back the same
\* protocol_version, operation and payload and consumes exactly the encoded
\* bytes.
C18_FrameRoundTrip ==
    ePc = "done" =>
        /\ eOut.kind = "some" /\ Len(eOut.pk) = 1
        /\ DOMAIN eOut.pk[1] = DOMAIN eIn /\ eOut.pk[1] = eIn
        /\ eOut.rest = << >>

\* C18, amended: decode does not give the fields back.  Whenever decode on
\* the bytes encode produced returns without error it has consumed exactly
\* the encoded bytes; for an operation other than 3, 5 and 8, which covers
\* the authentication and heartbeat frames, it yields no packet, and for
\* operation 8 it yields one ConnectSuccess packet.
C18_DecodeOfEncoded ==
    ePc = "done" =>
        /\ eOut.kind \in { "some", "none" } => eOut.rest = << >>
        /\ eIn.operation \notin { 3, 5, 8 } => eOut = Outcome("none", << >>, << >>, "")
        /\ eIn.operation = 8 =>
              eOut = Outcome("some", << [t |-> "ConnectSuccess", n |-> 0, msg |-> NoMsg] >>,
                             << >>, "")

C18_Witness ==
    /\ ePc = "done" /\ eIn.operation = 7 /\ Len(eIn.payload) = 27
    /\ Len(eBytes) = 43 /\ eOut.kind = "none" /\ eOut.rest = << >>

\* the layout of one frame: total_length, header_length, version, operation,
\* sequence, then the payload
WellFramed(bytes, pk) ==
    /\ Len(bytes) = 16 + Len(pk.payload)
    /\ bytes[1] * 16777216 + bytes[2] * 65536 + bytes[3] * 256 + bytes[4]
          = 16 + Len(pk.payload)
    /\ bytes[5] = 0 /\ bytes[6] = 16
    /\ bytes[7] * 256 + bytes[8] = pk.proto_ver
    /\ bytes[9] * 16777216 + bytes[10] * 65536 + bytes[11] * 256 + bytes[12]
          = pk.operation
    /\ SubSeq(bytes, 13, 16) = << 0, 0, 0, 1 >>
    /\ SubSeq(bytes, 17, Len(bytes)) = pk.payload
    /\ \A i \in 1..Len(bytes) : bytes[i] \in 0..255

\* C19: every frame encode produces has total_length = 16 + len(payload),
\* header_length = 16, sequence = 1, the given version and operation, and
\* then the payload verbatim; so has every frame written to the outbound
\* half.
C19_EncodedFrameLayout ==
    /\ (ePc = "decode" \/ eOut.kind # "") => WellFramed(eBytes, eIn)
    /\ \A i \in 1..Len(out) :
          WellFramed(out[i], IF i = 1 THEN Authenticate(roomId) ELSE Heartbeat)

C19_Witness == ePc = "decode" /\ eIn.payload # << >> /\ Len(eBytes) > 16

(***************************************************************************)
(* Claims about the guard level, checked under ParseSpec.                  *)
(***************************************************************************)
\* the names of the guard levels, by ordinal 0, 1, 2, 3
WantGuardLevel == << "None", "Governor", "Praefect", "Captain" >>

\* a WELCOME_GUARD document whose guard_level is an unsigned number
IsWelcomeGuard ==
    /\ pIn.json["cmd"] = JStr("WELCOME_GUARD")
    /\ pIn.json["data.guard_level"].k = "num" /\ pIn.json["data.guard_level"].n >= 0

\* C20: guard-level mapping.  The ordinals 0, 1, 2, 3 become None, Governor,
\* Praefect, Captain in the WelcomeGuard variant; for an ordinal of 4 or more
\* the enclosing message becomes ParsingError with the text, neither a
\* WelcomeGuard variant nor a failure of the session.
C20_GuardLevelMapping ==
    IsWelcomeGuard =>
        LET n == pIn.json["data.guard_level"].n IN
        /\ pPc # "panic"
        /\ (pPc = "done" /\ n >= 4) => pOut.msg = ParsingError(pIn.text)
        /\ (/\ pPc = "done" /\ n <= 3
            /\ pIn.json["data.uid"] = JNum(7) /\ pIn.json["data.username"] = JStr("s"))
              => /\ pOut.ret = "some" /\ pOut.msg.variant = "WelcomeGuard"
                 /\ pOut.msg.fields = << JStr(WantGuardLevel[n + 1]), JNum(7), JStr("s") >>

C20_Witness ==
    /\ IsWelcomeGuard /\ pPc = "done" /\ pIn.json["data.guard_level"].n = 4
    /\ pIn.json["data.uid"] = JNum(7) /\ pIn.json["data.username"] = JStr("s")
    /\ pOut.msg.variant = "ParsingError" /\ pOut.msg.text = pIn.text

(***************************************************************************)
(* The harness of the legacy decoder: bytes are appended to the buffer and *)
(* decode is called, again after every call that consumed bytes.           *)
(***************************************************************************)
LegacyInit ==
    /\ CodecIdle /\ ParseIdle /\ EncodeIdle /\ SessionIdle
    /\ lIn \in LegacyInputs
    /\ lFed = 0 /\ lBuf = << >> /\ lLast = NoCall /\ lPc = "append"

\* the harness after a decode call with outcome r on buffer before
AfterLegacyDecode(before, r) ==
    /\ lLast' = [before |-> before, out |-> r]
    /\ lBuf' = r.rest
    /\ lPc' = CASE r.kind = "panic" -> "panic"
                [] r.rest = before -> "append"
                [] OTHER -> "decode"

\* append the next k bytes and call decode
LegacyFeed ==
    /\ lPc = "append"
    /\ \E k \in 1..(Len(Wire[lIn]) - lFed) :
          LET src == lBuf \o SubSeq(Wire[lIn], lFed + 1, lFed + k)
          IN  /\ lFed' = lFed + k
              /\ AfterLegacyDecode(src, LegacyDecode(src))
    /\ UNCHANGED << codecVars, parseVars, encodeVars, lIn, sessionVars >>

\* call decode again after a call that consumed a frame
LegacyAgain ==
    /\ lPc = "decode"
    /\ AfterLegacyDecode(lBuf, LegacyDecode(lBuf))
    /\ UNCHANGED << codecVars, parseVars, encodeVars, lIn, lFed, sessionVars >>

LegacyNext == LegacyFeed \/ LegacyAgain

LegacySpec == LegacyInit /\ [][LegacyNext]_vars

(***************************************************************************)
(* Claims about unknown commands, checked under ParseSpec.                 *)
(***************************************************************************)
\* the command tags Message::parse has an arm for
KnownTags ==
    { "PREPARING", "LIVE", "ROOM_CHANGE", "DANMU_MSG", "SEND_GIFT", "COMBO_END",
      "WELCOME", "WELCOME_GUARD", "ROOM_RANK", "ENTRY_EFFECT", "NOTICE_MSG",
      "ROOM_REAL_TIME_MESSAGE_UPDATE", "SUPER_CHAT_MESSAGE", "SUPER_CHAT_MESSAGE_JPN",
      "HOT_ROOM_NOTIFY" }

\* a document whose command tag is a string parse has no arm for
IsUnknownCommand == pIn.json["cmd"].k = "str" /\ pIn.json["cmd"].s \notin KnownTags

\* C21: unknown command.  For every JSON whose command tag is a string that
\* is not one of the known tags, parse returns Raw holding the original JSON,
\* no field of it removed or altered.
C21_UnknownCommandRaw ==
    IsUnknownCommand =>
        /\ pPc # "panic"
        /\ pPc = "done" =>
              /\ pOut.ret = "some" /\ pOut.msg.variant = "Raw"
              /\ \A q \in Paths : pOut.msg.json[q] = pIn.json[q]

C21_Witness ==
    /\ pPc = "done" /\ pIn.json["cmd"] = JStr("SOME_FUTURE_EVENT")
    /\ pIn.json["data.title"] = JStr("s")
    /\ pOut.msg.variant = "Raw" /\ pOut.msg.json["data.title"] = JStr("s")

(***************************************************************************)
(* Claims about the end of the session, checked under Spec.                *)
(***************************************************************************)
\* C22: cancellation as a unit.  Once connect has returned, no further
\* callback is invoked, no further frame is sent and nothing more is read or
\* decoded, even if complete frames or undelivered packets of the current
\* frame are still buffered; neither loop takes a step after the other has
\* ended the session.
C22_CancelledAsAUnit ==
    [][connPc = "done" => UNCHANGED sessionVars]_vars

\* connect has returned the sink's error with packets of the current frame
\* undelivered and bytes of a later frame buffered
C22_Witness ==
    /\ connPc = "done" /\ result = ErrSend /\ streamRet = "running"
    /\ pending # << >> /\ buf # << >>

(***************************************************************************)
(* Claims about single frames in the session, checked under Spec.          *)
(***************************************************************************)
\* the buffer starts with a complete HeartbeatReply frame whose payload has
\* at least four bytes, and the next call of stream.next() decodes it
HeartbeatReplyAhead ==
    /\ connPc = "run" /\ streamRet = "running" /\ streamPc = "next" /\ is_readable
    /\ Len(buf) >= 20
    /\ SubSeq(buf, 9, 12) = << 0, 0, 0, 3 >>
    /\ buf[1] = 0 /\ buf[2] = 0 /\ buf[3] = 0 /\ buf[4] >= 20 /\ buf[4] <= Len(buf)

\* ConnectSuccess, then Popularity(100)
WantSuccessThenPopularity ==
    << [t |-> "ConnectSuccess", n |-> 0, msg |-> NoMsg],
       [t |-> "Popularity", n |-> 100, msg |-> NoMsg] >>

\* C23: a HeartbeatReply frame yields exactly one Popularity(v) packet, v
\* being the big-endian u32 of the first 4 payload bytes of that frame; and
\* on a ConnectSuccess frame followed by a HeartbeatReply frame with payload
\* 00 00 00 64 the callback observes ConnectSuccess, then Popularity(100).
C23_HeartbeatReplyPopularity ==
    /\ [][(HeartbeatReplyAhead /\ buf' # buf) =>
             /\ pending' = << [t |-> "Popularity",
                               n |-> buf[17] * 16777216 + buf[18] * 65536
                                        + buf[19] * 256 + buf[20],
                               msg |-> NoMsg] >>
             /\ buf' = SubSeq(buf, buf[4] + 1, Len(buf))]_vars
    /\ []((Len(stream) = 2 /\ stream[1].kind = "cs" /\ stream[2].kind \in { "hb", "hblong" })
            => /\ IsPrefix(delivered, WantSuccessThenPopularity)
               /\ (rcvd = Len(Wire[stream]) /\ buf = << >> /\ pending = << >>)
                     => delivered = WantSuccessThenPopularity)

C23_Witness ==
    /\ Len(stream) = 2 /\ stream[1].kind = "cs" /\ stream[2].kind = "hblong"
    /\ rcvd = 38 /\ buf = << >> /\ delivered = WantSuccessThenPopularity

(***************************************************************************)
(* Claims about decode on single frames, checked under CodecSpec.          *)
(***************************************************************************)
\* the last decode call was on a buffer that starts with a complete Message
\* frame of protocol_version 0 whose payload is one of the JSON texts
Version0MessageDecoded ==
    /\ cLast.out.kind # "" /\ Len(cLast.before) >= 16
    /\ SubSeq(cLast.before, 1, 3) = << 0, 0, 0 >>
    /\ cLast.before[4] >= 16 /\ cLast.before[4] <= Len(cLast.before)
    /\ SubSeq(cLast.before, 7, 12) = << 0, 0, 0, 0, 0, 5 >>
    /\ \E t \in 1..Len(Texts) : Texts[t] = SubSeq(cLast.before, 17, cLast.before[4])

\* C24: a Message frame with protocol_version 0 yields exactly one Message
\* packet, built from the bytes at offsets 16 .. total_length of the frame,
\* the frame itself being the single sub-frame.
C24_Version0SinglePacket ==
    Version0MessageDecoded =>
        LET len == cLast.before[4]
            t == CHOOSE t \in 1..Len(Texts) : Texts[t] = SubSeq(cLast.before, 17, len)
        IN  /\ cLast.out.kind = "some"
            /\ cLast.out.pk = << [t |-> "Message", n |-> 0, msg |-> WantMsg(t)] >>
            /\ cLast.out.rest = SubSeq(cLast.before, len + 1, Len(cLast.before))

\* the frame with the text {} has given a ParsingError with its whole
\* payload span
C24_Witness ==
    /\ Version0MessageDecoded /\ cLast.before[4] = 18
    /\ Len(cLast.out.pk) = 1 /\ cLast.out.pk[1].msg.variant = "ParsingError"
    /\ cLast.out.pk[1].msg.text = << 123, 125 >>

\* C25: decoder totality.  For every buffer content a decode call ends in
\* need-more-data, a list of packets or an error value; it never panics,
\* whether the declared total_length is below 16, a HeartbeatReply has fewer
\* than 4 payload bytes, or a payload is no valid JSON.
C25_DecodeNeverPanics ==
    /\ cPc # "panic"
    /\ cLast.out.kind \in { "", "none", "some", "err" }

\* C26: frame isolation.  While decoding a frame of declared length
\* total_length decode reads no buffered byte at offset >= total_length:
\* what a call on a buffer that holds a complete frame gives (packets, error
\* or panic) is what it gives on the bytes of that frame alone.
C26_FrameIsolation ==
    (/\ cLast.out.kind # ""
     /\ Len(cLast.before) >= 4
     /\ Len(cLast.before) >= U32(cLast.before, 1))
      => LET alone == Decode(Take(cLast.before, U32(cLast.before, 1)))
         IN  /\ cLast.out.kind = alone.kind
             /\ cLast.out.pk = alone.pk
             /\ cLast.out.err = alone.err

\* C27: decoder progress.  Every decode call that returns packets or drops
\* a frame removes at least 16 bytes from the buffer, also when the declared
\* total_length is 0 or otherwise below 16, so the same frame is never
\* returned twice.
C27_DecodeRemovesAFrame ==
    (\/ cLast.out.kind = "some"
     \/ cLast.out.kind = "none" /\ cLast.out.rest # cLast.before)
      => Len(cLast.before) - Len(cLast.out.rest) >= 16

(***************************************************************************)
(* Claims about dropped frames in the session, checked under Spec.         *)
(***************************************************************************)
\* C28: no frame is stranded behind a dropped frame.  The inbound loop never
\* waits for bytes from the peer while a complete frame is buffered, and
\* the peer's clean close after its last frame never ends the loop with
\* frames still buffered ("bytes remaining on stream").
C28_NoFrameStranded ==
    /\ (streamRet = "running" /\ streamPc = "next" /\ ~is_readable)
          => (Len(buf) < 4 \/ Len(buf) < U32(buf, 1))
    /\ streamRet # ErrRemaining

(***************************************************************************)
(* Claims about the legacy decoder, checked under LegacySpec.              *)
(***************************************************************************)
\* C29: for every complete frame the legacy decoder consumes exactly
\* total_length bytes whichever opcode branch is taken, in particular for a
\* HeartbeatReply frame whose payload is not exactly 4 bytes long, so that
\* the next decode call starts at the next frame boundary.
C29_LegacyAdvancesByTotalLength ==
    /\ (/\ lLast.out.kind \in { "some", "none" }
        /\ Len(lLast.before) >= 4
        /\ Len(lLast.before) >= U32(lLast.before, 1))
          => Len(lLast.out.rest) = Len(lLast.before) - U32(lLast.before, 1)
    /\ lPc # "panic" =>
          \E c \in 0..Len(lIn) :
              /\ Boundary(lIn, c) <= lFed
              /\ lBuf = SubSeq(Wire[lIn], Boundary(lIn, c) + 1, lFed)

=============================================================================
